---- MODULE Spec2Model ----
(***************************************************************************)
(* nexus-hub backend: tenant-scoped data access (crm, projects,            *)
(* collaboration routers) and the token issuer/verifier                    *)
(* (core/security/jwt.py, identity/dependencies.py).                       *)
(*                                                                         *)
(* The persistent store is one variable, rows: a sequence whose index is   *)
(* the primary key and whose field kind names the table.  A handler is an  *)
(* operator from (rows, request) to [resp, rows]; the action of the same   *)
(* name applies it.  repository.create / update / soft_delete / delete are *)
(* modelled by their effect on the table (insert, overwrite, flag,         *)
(* remove).  current_user is the value FastAPI resolves through            *)
(* get_current_active_user, an active row of the users table.              *)
(***************************************************************************)
EXTENDS Integers, Sequences, FiniteSets, TLC

VARIABLES rows, scope, now, issued, password_hash, accounts, pending, user_roles, outcome

vars ==
    <<rows, scope, now, issued, password_hash, accounts, pending, user_roles, outcome>>

(***************************************************************************)
(* Bounds of the model.                                                    *)
(***************************************************************************)
MaxRows == 2

\* The clock runs from 0 to MaxNow ticks; a second has TicksPerSecond ticks.
MaxNow == 4

TicksPerSecond == 2

\* Tokens issued in one behaviour.
MaxTokens == 2

(***************************************************************************)
(* Tenant identifiers.  Optional[UUID] columns: None, a tenants.id, or a   *)
(* value drawn by uuid4().                                                 *)
(***************************************************************************)
None == <<"None", 0>>

\* A field a request body leaves out (model_dump(exclude_unset=True)).
Unset == "unset"

TenantA == <<"tenant", 1>>

TenantB == <<"tenant", 2>>

(***************************************************************************)
(* The users table as provisioned (tenant_id is set out of band: register  *)
(* never stamps it).  Users 1 and 3 share a tenant, user 2 is in another,  *)
(* user 4 has none, as every user made by register.                        *)
(***************************************************************************)
UserIds == {1, 2, 3, 4}

users ==
    [u \in UserIds |->
        CASE u = 1 -> [tenant_id |-> TenantA, roles |-> <<"user">>, is_active |-> TRUE,
                       is_superuser |-> FALSE]
          [] u = 2 -> [tenant_id |-> TenantB, roles |-> <<"admin">>, is_active |-> TRUE,
                       is_superuser |-> FALSE]
          [] u = 3 -> [tenant_id |-> TenantA, roles |-> <<"guest">>, is_active |-> TRUE,
                       is_superuser |-> FALSE]
          [] u = 4 -> [tenant_id |-> None, roles |-> <<"user">>, is_active |-> TRUE,
                       is_superuser |-> FALSE]]

\* identity/models.py User.is_admin
is_admin(user) ==
    \/ user.is_superuser
    \/ \E i \in 1..Len(user.roles) : user.roles[i] \in {"admin", "super_admin"}

(***************************************************************************)
(* Tables.                                                                 *)
(***************************************************************************)
CrmServiceKinds == {"company", "contact", "deal"}

CrmRouterKinds == {"activity", "custom_field"}

CrmKinds == CrmServiceKinds \cup CrmRouterKinds

UserTenantKinds == {"project", "task", "team", "comment"}

Kinds == CrmKinds \cup UserTenantKinds \cup {"notification"}

\* The tables one behaviour exercises: tables of different routers never
\* reference each other through a checked key.
Scopes ==
    {{"company", "contact", "deal"}, {"activity", "custom_field"},
     {"project", "task"}, {"team"}, {"comment"}, {"notification"}}

Contents == {"a", "b"}

\* The (entity_type, entity_id) pairs comments are attached to.
EntityKeys == {1, 2}

NoBody == [kind |-> "none"]

Ids == 1..MaxRows

\* An id that no table holds.
MissingId == MaxRows + 1

NewRow(kind, tenant_id, owner, user_id, ref, entity, content) ==
    [kind |-> kind, tenant_id |-> tenant_id, owner |-> owner, user_id |-> user_id,
     ref |-> ref, entity |-> entity, content |-> content,
     is_deleted |-> FALSE, live |-> TRUE, is_read |-> FALSE, read_at |-> None,
     contact |-> 0, deal |-> 0, stage |-> "none", status |-> "open"]

\* BaseRepository.get: select ... where id == id, on the table of the kind.
RepoGet(rs, kind, id) ==
    IF id \in 1..Len(rs) /\ rs[id].live /\ rs[id].kind = kind
    THEN rs[id]
    ELSE NoBody

Found(row) == row # NoBody

Max(S) == CHOOSE x \in S : \A y \in S : y <= x

\* uuid4(): a value different from every identifier drawn or stored before.
uuid4(rs) ==
    LET used == {rs[i].tenant_id[2] : i \in {j \in 1..Len(rs) : rs[j].tenant_id[1] = "uuid4"}}
    IN  <<"uuid4", Max(used \cup {0}) + 1>>

\* crm/dependencies.py: the tenant every crm endpoint is scoped to.
get_current_tenant_id(rs) == uuid4(rs)

\* The tenant a request on a table of the kind is stamped and scoped with.
RequestTenant(rs, kind, caller) ==
    IF kind \in CrmKinds THEN get_current_tenant_id(rs) ELSE users[caller].tenant_id

(***************************************************************************)
(* Outcomes of a handler: the value returned or the exception raised.      *)
(***************************************************************************)
Ok(status, body) ==
    [status |-> status, error |-> "none", message |-> "", body |-> body]

\* core/exceptions/errors.py: message = f"{resource} not found", status 404.
NotFoundError(resource) ==
    [status |-> 404, error |-> "NotFoundError",
     message |-> resource \o " not found", body |-> NoBody]

ValidationError(message) ==
    [status |-> 422, error |-> "ValidationError", message |-> message, body |-> NoBody]

HTTPException(status_code, detail) ==
    [status |-> status_code, error |-> "HTTPException", message |-> detail, body |-> NoBody]

ListOk(items) == [status |-> 200, items |-> items]

\* The resource named in the not-found outcome of each table's endpoints.
ResourceName(kind) ==
    CASE kind = "company" -> "Company not found"
      [] kind = "contact" -> "Contact not found"
      [] kind = "deal" -> "Deal not found"
      [] kind = "activity" -> "Activity not found"
      [] kind = "custom_field" -> "Custom field not found"
      [] kind = "project" -> "Project not found"
      [] kind = "task" -> "Task not found"
      [] kind = "team" -> "Team not found"
      [] kind = "comment" -> "Comment not found"
      [] kind = "notification" -> "Notification not found"

\* "if not x or x.tenant_id != tenant_id: raise": TRUE when the row passes.
TenantCheckNoTenant(row, tenant_id) == Found(row)

TenantCheck(row, tenant_id) == Found(row) /\ row.tenant_id = tenant_id

\* The not-found outcome of a table's endpoints: the crm services raise
\* NotFoundError, the routers raise HTTPException(404).
NotFound(kind) ==
    IF kind \in CrmServiceKinds
    THEN NotFoundError(ResourceName(kind))
    ELSE HTTPException(404, ResourceName(kind))

\* The models that declare an is_deleted column (BaseRepository.soft_delete
\* tests hasattr(db_obj, "is_deleted")); the crm models carry deleted_at only.
HasIsDeleted(kind) == kind \in UserTenantKinds \cup {"notification"}

(***************************************************************************)
(* Get by id.                                                              *)
(***************************************************************************)
get_entity(rs, kind, id, caller) ==
    LET tenant_id == RequestTenant(rs, kind, caller)
        row == RepoGet(rs, kind, id)
    IN  IF ~TenantCheck(row, tenant_id)
        THEN [resp |-> NotFound(kind), rows |-> rs]
        ELSE [resp |-> Ok(200, row), rows |-> rs]

(***************************************************************************)
(* Listings.  A filter is [by |-> "none" | "project" | "assignee" |        *)
(* "entity" | "replies", key |-> the filter's value].                      *)
(***************************************************************************)
LiveIds(rs, kind) == {i \in 1..Len(rs) : rs[i].live /\ rs[i].kind = kind}

NoFilter == [by |-> "none", key |-> 0]

\* CompanyRepository / ContactRepository / DealRepository.get_by_tenant,
\* ActivityRepository.get_timeline, CustomFieldRepository.get_by_entity_type,
\* ProjectRepository.get_by_tenant, TeamRepository.get_by_tenant.
get_by_tenant(rs, kind, tenant_id) ==
    {i \in LiveIds(rs, kind) : rs[i].tenant_id = tenant_id /\ ~rs[i].is_deleted}

\* TaskRepository.get_by_project
get_by_project(rs, project_id) ==
    {i \in LiveIds(rs, "task") : rs[i].ref = project_id /\ ~rs[i].is_deleted}

\* TaskRepository.get_by_assignee
get_by_assignee(rs, assignee_id) ==
    {i \in LiveIds(rs, "task") : rs[i].user_id = assignee_id /\ ~rs[i].is_deleted}

\* projects/router.py list_tasks
list_tasks(rs, caller, filter) ==
    IF filter.by = "project"
    THEN get_by_project(rs, filter.key)
    ELSE IF filter.by = "assignee"
    THEN get_by_assignee(rs, filter.key)
    ELSE {i \in LiveIds(rs, "task") : rs[i].tenant_id = users[caller].tenant_id}

\* CommentRepository.get_by_entity: top-level comments of an entity.
get_by_entity(rs, entity) ==
    {i \in LiveIds(rs, "comment") :
        rs[i].entity = entity /\ ~rs[i].is_deleted /\ rs[i].ref = 0}

\* CommentRepository.get_replies
get_replies(rs, parent_id) ==
    {i \in LiveIds(rs, "comment") : rs[i].ref = parent_id /\ ~rs[i].is_deleted}

\* NotificationRepository.get_by_user
get_by_user(rs, user_id) ==
    {i \in LiveIds(rs, "notification") : rs[i].user_id = user_id /\ ~rs[i].is_deleted}

list_entities(rs, kind, caller, filter) ==
    LET tenant_id == RequestTenant(rs, kind, caller)
    IN  ListOk(CASE kind = "task" -> list_tasks(rs, caller, filter)
                 [] kind = "comment" ->
                        IF filter.by = "replies"
                        THEN get_replies(rs, filter.key)
                        ELSE get_by_entity(rs, filter.key)
                 [] kind = "notification" -> get_by_user(rs, caller)
                 [] OTHER -> get_by_tenant(rs, kind, tenant_id))

\* The filters a listing of the kind accepts.
Filters(rs, kind) ==
    CASE kind = "task" ->
            {NoFilter} \cup [by : {"project"}, key : 1..Len(rs)]
                       \cup [by : {"assignee"}, key : UserIds]
      [] kind = "comment" ->
            [by : {"entity"}, key : EntityKeys] \cup [by : {"replies"}, key : 1..Len(rs)]
      [] OTHER -> {NoFilter}

(***************************************************************************)
(* Create.  data = [ref, user_id, entity, content]: the referenced row     *)
(* (parent company, company, project, parent comment), the assignee or     *)
(* addressee, the commented entity, and the payload.                       *)
(***************************************************************************)
Insert(rs, row) == [resp |-> Ok(201, row), rows |-> Append(rs, row)]

Refuse(rs, resp) == [resp |-> resp, rows |-> rs]

create_entity(rs, kind, caller, data) ==
    LET tenant_id == RequestTenant(rs, kind, caller)
        row == NewRow(kind, tenant_id, caller, data.user_id, data.ref,
                      data.entity, data.content)
    IN  CASE kind = "company" ->
                \* CompanyService.create_company: verify the parent if given
                IF data.ref # 0 /\ ~TenantCheck(RepoGet(rs, "company", data.ref), tenant_id)
                THEN Refuse(rs, ValidationError("Invalid parent company"))
                ELSE Insert(rs, row)
          [] kind = "contact" ->
                \* ContactService.create_contact: verify the company if given
                IF data.ref # 0 /\ ~TenantCheck(RepoGet(rs, "company", data.ref), tenant_id)
                THEN Refuse(rs, ValidationError("Invalid company"))
                ELSE Insert(rs, row)
          [] kind = "deal" ->
                \* DealService.create_deal: company_id is required and verified
                IF ~TenantCheck(RepoGet(rs, "company", data.ref), tenant_id)
                THEN Refuse(rs, ValidationError("Invalid company"))
                ELSE Insert(rs, row)
          [] kind = "task" ->
                \* create_task: the project must exist in the caller's tenant
                IF ~TenantCheck(RepoGet(rs, "project", data.ref), tenant_id)
                THEN Refuse(rs, HTTPException(404, "Project not found"))
                ELSE Insert(rs, row)
          [] OTHER ->
                \* create_activity, create_custom_field, create_project,
                \* create_team, create_comment, create_notification
                Insert(rs, row)

\* The request bodies a create of the kind is given.
CreateData(rs, kind) ==
    CASE kind \in {"company", "contact", "deal", "activity", "task"} ->
            [ref : 0..Len(rs), user_id : {0}, entity : {0}, content : Contents]
      [] kind = "comment" ->
            [ref : 0..Len(rs), user_id : {0}, entity : EntityKeys, content : Contents]
      [] kind = "notification" ->
            [ref : {0}, user_id : UserIds, entity : {0}, content : Contents]
      [] OTHER ->
            [ref : {0}, user_id : {0}, entity : {0}, content : Contents]

(***************************************************************************)
(* Update and delete.                                                      *)
(***************************************************************************)
\* repository.update: overwrite the row's payload.
Overwrite(rs, id, content) ==
    LET row == [rs[id] EXCEPT !.content = content]
    IN  [resp |-> Ok(200, row), rows |-> [rs EXCEPT ![id] = row]]

\* is_deleted = True; deleted_at = utcnow(); repo.update(row)
SoftDelete(rs, id) ==
    [resp |-> Ok(204, NoBody), rows |-> [rs EXCEPT ![id].is_deleted = TRUE]]

\* BaseRepository.soft_delete: flags the row only if the model has is_deleted.
soft_delete(rs, kind, id) ==
    IF HasIsDeleted(kind)
    THEN SoftDelete(rs, id)
    ELSE [resp |-> Ok(204, NoBody), rows |-> rs]

\* BaseRepository.delete: the row leaves the table.
HardDelete(rs, id) ==
    [resp |-> Ok(204, NoBody), rows |-> [rs EXCEPT ![id].live = FALSE]]

\* "if comment.author_id != current_user.id: raise 403": TRUE when the
\* caller passes.
AuthorCheckAnyone(row, caller) == Found(row)

AuthorCheck(row, caller) == Found(row) /\ row.owner = caller

update_entity(rs, kind, caller, id, content) ==
    LET tenant_id == RequestTenant(rs, kind, caller)
        row == RepoGet(rs, kind, id)
    IN  IF ~TenantCheck(row, tenant_id)
        THEN Refuse(rs, NotFound(kind))
        ELSE IF kind = "comment" /\ ~AuthorCheck(row, caller)
        THEN Refuse(rs, HTTPException(403, "Not authorized to edit this comment"))
        ELSE Overwrite(rs, id, content)

\* collaboration/router_notifications.py delete_notification
delete_notification(rs, caller, id) ==
    LET notification == RepoGet(rs, "notification", id)
    IN  IF ~Found(notification) \/ notification.user_id # caller
        THEN Refuse(rs, HTTPException(404, "Notification not found"))
        ELSE SoftDelete(rs, id)

delete_entity(rs, kind, caller, id) ==
    LET tenant_id == RequestTenant(rs, kind, caller)
        row == RepoGet(rs, kind, id)
    IN  IF kind = "notification"
        THEN delete_notification(rs, caller, id)
        ELSE IF ~TenantCheck(row, tenant_id)
        THEN Refuse(rs, NotFound(kind))
        ELSE IF kind = "comment" /\ ~AuthorCheck(row, caller)
        THEN Refuse(rs, HTTPException(403, "Not authorized to delete this comment"))
        ELSE IF kind \in CrmServiceKinds
        THEN soft_delete(rs, kind, id)
        ELSE IF kind \in CrmRouterKinds
        THEN HardDelete(rs, id)
        ELSE SoftDelete(rs, id)

(***************************************************************************)
(* collaboration: marking notifications as read.                           *)
(***************************************************************************)
MaxListed == 2

\* The lists of ids a mark-read request carries.
NotificationIdLists == UNION {[1..n -> Ids \cup {MissingId}] : n \in 0..MaxListed}

\* NotificationRepository.mark_as_read: for notif_id in notification_ids:
\* notif = get(notif_id); if notif and notif.user_id == user_id: flag it.
RECURSIVE mark_as_read_any_user(_, _, _, _)
mark_as_read_any_user(rs, user_id, notification_ids, t) ==
    IF notification_ids = <<>>
    THEN rs
    ELSE LET notif_id == Head(notification_ids)
             notif == RepoGet(rs, "notification", notif_id)
             marked == IF Found(notif)
                       THEN [rs EXCEPT ![notif_id].is_read = TRUE,
                                       ![notif_id].read_at = <<"datetime", t>>]
                       ELSE rs
         IN  mark_as_read_any_user(marked, user_id, Tail(notification_ids), t)

RECURSIVE mark_as_read(_, _, _, _)
mark_as_read(rs, user_id, notification_ids, t) ==
    IF notification_ids = <<>>
    THEN rs
    ELSE LET notif_id == Head(notification_ids)
             notif == RepoGet(rs, "notification", notif_id)
             marked == IF Found(notif) /\ notif.user_id = user_id
                       THEN [rs EXCEPT ![notif_id].is_read = TRUE,
                                       ![notif_id].read_at = <<"datetime", t>>]
                       ELSE rs
         IN  mark_as_read(marked, user_id, Tail(notification_ids), t)

\* collaboration/router_notifications.py mark_notifications_read
mark_notifications_read(rs, caller, notification_ids, t) ==
    [resp |-> [status |-> 200, marked |-> Len(notification_ids)],
     rows |-> mark_as_read(rs, caller, notification_ids, t)]

\* The tables with a get-by-id and an update endpoint (notifications have none).
GetKinds == Kinds \ {"notification"}

(***************************************************************************)
(* core/security/permissions.py                                            *)
(***************************************************************************)
Permission ==
    {"user:read", "user:write", "user:delete",
     "contact:read", "contact:write", "contact:delete",
     "company:read", "company:write", "company:delete",
     "deal:read", "deal:write", "deal:delete",
     "project:read", "project:write", "project:delete",
     "task:read", "task:write", "task:delete",
     "team:read", "team:write", "team:delete",
     "ai:use", "ai:admin",
     "plugin:read", "plugin:install", "plugin:manage",
     "admin:read", "admin:write", "settings:manage", "audit:read"}

Role == {"super_admin", "admin", "manager", "developer", "user", "guest"}

ROLE_PERMISSIONS ==
    [r \in Role |->
        CASE r = "super_admin" -> Permission
          [] r = "admin" ->
                {"user:read", "user:write",
                 "contact:read", "contact:write", "contact:delete",
                 "company:read", "company:write", "company:delete",
                 "deal:read", "deal:write", "deal:delete",
                 "project:read", "project:write", "project:delete",
                 "task:read", "task:write", "task:delete",
                 "team:read", "team:write", "team:delete",
                 "ai:use", "plugin:read", "plugin:install",
                 "admin:read", "settings:manage", "audit:read"}
          [] r = "manager" ->
                {"user:read", "contact:read", "contact:write",
                 "company:read", "company:write", "deal:read", "deal:write",
                 "project:read", "project:write", "task:read", "task:write",
                 "team:read", "team:write", "ai:use", "plugin:read"}
          [] r = "developer" ->
                {"user:read", "contact:read", "company:read", "deal:read",
                 "project:read", "project:write", "task:read", "task:write",
                 "team:read", "ai:use", "plugin:read"}
          [] r = "user" ->
                {"user:read", "contact:read", "company:read", "deal:read",
                 "project:read", "task:read", "task:write", "team:read", "ai:use"}
          [] r = "guest" -> {"project:read", "task:read"}]

\* ROLE_PERMISSIONS.get(role, [])
get_role_permissions_admin_cap(role) ==
    IF role = "super_admin" THEN ROLE_PERMISSIONS["admin"] ELSE ROLE_PERMISSIONS[role]

get_role_permissions(role) == ROLE_PERMISSIONS[role]

\* for role_str in roles: Role(role_str) raises ValueError for an unknown
\* name, which is skipped; True on the first role that grants the permission.
has_permission_first_role(roles, required_permission) ==
    /\ roles # <<>>
    /\ roles[1] \in Role
    /\ required_permission \in get_role_permissions(roles[1])

has_permission(roles, required_permission) ==
    \E i \in 1..Len(roles) :
        /\ roles[i] \in Role
        /\ required_permission \in get_role_permissions(roles[i])

\* permissions = set(); for role_str in roles: try: permissions.update(
\* get_role_permissions(Role(role_str))) except ValueError: continue
RECURSIVE get_user_permissions_break(_)
get_user_permissions_break(roles) ==
    IF roles = <<>> \/ roles[1] \notin Role
    THEN {}
    ELSE get_role_permissions(roles[1]) \cup get_user_permissions_break(Tail(roles))

RECURSIVE get_user_permissions(_)
get_user_permissions(roles) ==
    IF roles = <<>>
    THEN {}
    ELSE (IF roles[1] \in Role THEN get_role_permissions(roles[1]) ELSE {})
             \cup get_user_permissions(Tail(roles))

(***************************************************************************)
(* core/security/jwt.py.  Instants are clock ticks; a datetime put into a  *)
(* claim is encoded as whole seconds since the epoch (jose:                *)
(* timegm(utctimetuple())), which drops the sub-second part.               *)
(***************************************************************************)
ACCESS_TOKEN_EXPIRE_MINUTES == 60

REFRESH_TOKEN_EXPIRE_DAYS == 30

Seconds(t) == t \div TicksPerSecond

\* expires_delta: None or a timedelta of whole seconds.
NoDelta == <<"None">>

Deltas == {<<"timedelta", d>> : d \in {-1, 0, 1}}

\* "if expires_delta:" is the truth value: None and timedelta(0) are falsy.
Truthy(expires_delta) == expires_delta # NoDelta /\ expires_delta[2] # 0

\* Subject claims: a string (a sequence of characters) or absent.
NoSub == <<"absent">>

Subs == {<<"1">>, <<"a", "7">>, <<>>}

Token(sub, type, expire, t, sig) ==
    [sub |-> sub, type |-> type, exp |-> Seconds(expire), iat |-> Seconds(t), sig |-> sig]

\* to_encode = data.copy(); to_encode.update({exp, iat, type}); jwt.encode(...)
create_access_token_keep_type(data, expires_delta, t) ==
    LET expire == IF Truthy(expires_delta)
                  THEN t + expires_delta[2] * TicksPerSecond
                  ELSE t + ACCESS_TOKEN_EXPIRE_MINUTES * 60 * TicksPerSecond
    IN  Token(data.sub, IF data.type = "absent" THEN "access" ELSE data.type,
              expire, t, "SECRET_KEY")

create_access_token(data, expires_delta, t) ==
    LET expire == IF Truthy(expires_delta)
                  THEN t + expires_delta[2] * TicksPerSecond
                  ELSE t + ACCESS_TOKEN_EXPIRE_MINUTES * 60 * TicksPerSecond
    IN  Token(data.sub, "access", expire, t, "SECRET_KEY")

create_refresh_token(data, expires_delta, t) ==
    LET expire == IF Truthy(expires_delta)
                  THEN t + expires_delta[2] * TicksPerSecond
                  ELSE t + REFRESH_TOKEN_EXPIRE_DAYS * 24 * 60 * 60 * TicksPerSecond
    IN  Token(data.sub, "refresh", expire, t, "SECRET_KEY")

AuthenticationError(message, details) ==
    [ok |-> FALSE, error |-> "AuthenticationError", status |-> 401,
     message |-> message, details |-> details]

AuthorizationError(message, details) ==
    [ok |-> FALSE, error |-> "AuthorizationError", status |-> 403,
     message |-> message, details |-> details]

\* A string that is not three base64 segments.
MalformedToken == [sig |-> "malformed"]

\* jwt.decode: the string is split into its segments, the signature is
\* verified with SECRET_KEY, then exp: the token is expired when exp < now,
\* both in whole seconds.  details is {"error": str(e)} of the JWTError.
decode_token_no_exp(token, t) ==
    IF token.sig \in {"none", "malformed"}
    THEN AuthenticationError("Invalid or expired token", "Not enough segments")
    ELSE IF token.sig # "SECRET_KEY"
    THEN AuthenticationError("Invalid or expired token", "Signature verification failed.")
    ELSE [ok |-> TRUE, payload |-> token]

decode_token(token, t) ==
    IF token.sig \in {"none", "malformed"}
    THEN AuthenticationError("Invalid or expired token", "Not enough segments")
    ELSE IF token.sig # "SECRET_KEY"
    THEN AuthenticationError("Invalid or expired token", "Signature verification failed.")
    ELSE IF token.exp < Seconds(t)
    THEN AuthenticationError("Invalid or expired token", "Signature has expired.")
    ELSE [ok |-> TRUE, payload |-> token]

verify_token_type(payload, expected_type) ==
    IF payload.type # expected_type
    THEN AuthenticationError("Invalid token type", <<expected_type, payload.type>>)
    ELSE [ok |-> TRUE]

\* The expiry as an instant, or None when decode fails or exp is falsy.
get_token_expiry(token, t) ==
    LET decoded == decode_token(token, t)
    IN  IF decoded.ok /\ decoded.payload.exp # 0
        THEN <<"datetime", decoded.payload.exp * TicksPerSecond>>
        ELSE None

is_token_expired(token, t) ==
    LET expiry == get_token_expiry(token, t)
    IN  IF expiry = None THEN TRUE ELSE expiry[2] < t

\* int(): a string of decimal digits is its value, anything else ValueError.
Digits == {"0", "1", "2", "3", "4", "5", "6", "7", "8", "9"}

DigitValue(c) ==
    CASE c = "0" -> 0 [] c = "1" -> 1 [] c = "2" -> 2 [] c = "3" -> 3 [] c = "4" -> 4
      [] c = "5" -> 5 [] c = "6" -> 6 [] c = "7" -> 7 [] c = "8" -> 8 [] c = "9" -> 9

RECURSIVE DecimalValue(_)
DecimalValue(s) ==
    IF s = <<>> THEN 0
    ELSE 10 * DecimalValue(SubSeq(s, 1, Len(s) - 1)) + DigitValue(s[Len(s)])

int(s) ==
    IF s # <<>> /\ \A i \in 1..Len(s) : s[i] \in Digits
    THEN [ok |-> TRUE, value |-> DecimalValue(s)]
    ELSE [ok |-> FALSE, error |-> "ValueError", status |-> 500,
          message |-> "invalid literal for int()", details |-> ""]

\* identity/dependencies.py get_current_user_id.  NoToken is the default "".
NoToken == [sig |-> "none"]

get_current_user_id(token, t) ==
    IF token = NoToken
    THEN AuthenticationError("Not authenticated", "")
    ELSE LET decoded == decode_token(token, t)
         IN  IF ~decoded.ok
             THEN decoded
             ELSE IF decoded.payload.sub = NoSub \/ decoded.payload.sub = <<>>
             THEN AuthenticationError("Invalid token payload", "")
             ELSE int(decoded.payload.sub)

(***************************************************************************)
(* core/security/password.py and IdentityService.change_password.  A hash  *)
(* is the pair of the scheme and the password it was made from; the salt   *)
(* is left out.                                                            *)
(***************************************************************************)
Passwords == {"p1", "p2"}

hash_password(password) == <<"argon2id", password>>

\* A stored value that is no argon2 hash, and one that has the form of an
\* argon2 hash and cannot be decoded.
MalformedHash == <<"plaintext", "p1">>

CorruptHash == <<"argon2id-corrupt", "p1">>

\* ph.verify(hash, password): returns, or raises the exception named.
ph_verify(hash, password) ==
    IF hash[1] = "argon2id-corrupt" THEN "VerificationError"
    ELSE IF hash[1] # "argon2id" THEN "InvalidHashError"
    ELSE IF hash[2] # password THEN "VerifyMismatchError"
    ELSE "verified"

\* try: ph.verify(...); return True
\* except (VerificationError, VerifyMismatchError, InvalidHashError): return False
verify_password_mismatch_only(plain_password, hashed_password) ==
    ph_verify(hashed_password, plain_password) # "VerifyMismatchError"

verify_password(plain_password, hashed_password) ==
    ph_verify(hashed_password, plain_password)
        \notin {"VerificationError", "VerifyMismatchError", "InvalidHashError"}

change_password(hashes, user_id, current_password, new_password) ==
    IF ~verify_password(current_password, hashes[user_id])
    THEN [resp |-> AuthenticationError("Invalid current password", ""), hashes |-> hashes]
    ELSE [resp |-> [ok |-> TRUE],
          hashes |-> [hashes EXCEPT ![user_id] = hash_password(new_password)]]

(***************************************************************************)
(* The store: one action per endpoint family, applied to the tables of the *)
(* behaviour's scope.                                                      *)
(***************************************************************************)
NoTokens ==
    /\ now = 0
    /\ issued = {}
    /\ password_hash = [u \in UserIds |-> hash_password("p1")]

\* No permission query made.
NoOutcome == [fn |-> "none", permission |-> "", granted |-> FALSE, permissions |-> {}]

NoCalls ==
    /\ user_roles = <<>>
    /\ outcome = NoOutcome

\* No row in the users table of the identity endpoints, no register call
\* under way.
NoAccounts ==
    /\ accounts = <<>>
    /\ pending = {}

Init ==
    /\ rows = <<>>
    /\ scope \in Scopes
    /\ NoTokens
    /\ NoCalls
    /\ NoAccounts

Create ==
    /\ Len(rows) < MaxRows
    /\ \E kind \in scope, caller \in UserIds :
          \E data \in CreateData(rows, kind) :
              rows' = create_entity(rows, kind, caller, data).rows
    /\ UNCHANGED <<scope, now, issued, password_hash, accounts, pending, user_roles, outcome>>

Get ==
    /\ \E kind \in scope \cap GetKinds, caller \in UserIds, id \in Ids \cup {MissingId} :
          rows' = get_entity(rows, kind, id, caller).rows
    /\ UNCHANGED <<scope, now, issued, password_hash, accounts, pending, user_roles, outcome>>

List ==
    /\ \E kind \in scope, caller \in UserIds :
          \E filter \in Filters(rows, kind) :
              /\ list_entities(rows, kind, caller, filter).status = 200
              /\ rows' = rows
    /\ UNCHANGED <<scope, now, issued, password_hash, accounts, pending, user_roles, outcome>>

Update ==
    /\ \E kind \in scope \cap GetKinds, caller \in UserIds,
          id \in Ids \cup {MissingId}, content \in Contents :
          rows' = update_entity(rows, kind, caller, id, content).rows
    /\ UNCHANGED <<scope, now, issued, password_hash, accounts, pending, user_roles, outcome>>

Delete ==
    /\ \E kind \in scope, caller \in UserIds, id \in Ids \cup {MissingId} :
          rows' = delete_entity(rows, kind, caller, id).rows
    /\ UNCHANGED <<scope, now, issued, password_hash, accounts, pending, user_roles, outcome>>

MarkRead ==
    /\ "notification" \in scope
    /\ \E caller \in UserIds, notification_ids \in NotificationIdLists :
          rows' = mark_notifications_read(rows, caller, notification_ids, now).rows
    /\ UNCHANGED <<scope, now, issued, password_hash, accounts, pending, user_roles, outcome>>

Next == Create \/ Get \/ List \/ Update \/ Delete \/ MarkRead

Spec == Init /\ [][Next]_vars

(***************************************************************************)
(* Tokens: issuing, the clock, logout and password change.  issued keeps,  *)
(* for every token handed out, the call that made it: the function, the    *)
(* sub of its data, its expires_delta and the instant of the call.         *)
(***************************************************************************)
ClaimSets == [sub : Subs \cup {NoSub}, type : {"absent", "refresh"}]

InitToken ==
    /\ rows = <<>>
    /\ scope = {"team"}
    /\ NoTokens
    /\ NoCalls
    /\ NoAccounts

IssueAccess ==
    /\ Cardinality(issued) < MaxTokens
    /\ \E data \in ClaimSets, expires_delta \in Deltas \cup {NoDelta} :
          issued' = issued \cup
              {[token |-> create_access_token(data, expires_delta, now),
                at |-> now, ttl |-> expires_delta, data |-> data.sub,
                fn |-> "create_access_token"]}
    /\ UNCHANGED <<rows, scope, now, password_hash, accounts, pending, user_roles, outcome>>

IssueRefresh ==
    /\ Cardinality(issued) < MaxTokens
    /\ \E data \in ClaimSets, expires_delta \in Deltas \cup {NoDelta} :
          issued' = issued \cup
              {[token |-> create_refresh_token(data, expires_delta, now),
                at |-> now, ttl |-> expires_delta, data |-> data.sub,
                fn |-> "create_refresh_token"]}
    /\ UNCHANGED <<rows, scope, now, password_hash, accounts, pending, user_roles, outcome>>

Tick ==
    /\ now < MaxNow
    /\ now' = now + 1
    /\ UNCHANGED <<rows, scope, issued, password_hash, accounts, pending, user_roles, outcome>>

\* identity/router.py logout: deletes the two cookies of the response.
logout == UNCHANGED vars

ChangePassword ==
    /\ \E user_id \in UserIds, current_password \in Passwords, new_password \in Passwords :
          password_hash' =
              change_password(password_hash, user_id, current_password, new_password).hashes
    /\ UNCHANGED <<rows, scope, now, issued, accounts, pending, user_roles, outcome>>

NextToken == IssueAccess \/ IssueRefresh \/ Tick \/ logout \/ ChangePassword

SpecToken == InitToken /\ [][NextToken]_vars

(***************************************************************************)
(* Tenant isolation and authorization of the store's endpoints.            *)
(***************************************************************************)
\* C1: a get-by-id of an entity of another tenant than the caller's has the
\* same outcome as a get-by-id of an id that does not exist, and carries no
\* entity data.
C1_GetOtherTenantIsNotFound ==
    \A kind \in scope \cap GetKinds, caller \in UserIds, id \in 1..Len(rows) :
        LET row == RepoGet(rows, kind, id)
            got == get_entity(rows, kind, id, caller)
        IN  (Found(row) /\ row.tenant_id # users[caller].tenant_id) =>
                /\ got.resp = get_entity(rows, kind, MissingId, caller).resp
                /\ got.resp.body = NoBody
                /\ got.resp.status = 404

\* C1 witness: a project of tenant A that user 1 of tenant A gets and user 2
\* of tenant B is answered not-found for.
C1_Witness ==
    \E id \in 1..Len(rows) :
        /\ rows[id].kind = "project"
        /\ rows[id].tenant_id = TenantA
        /\ get_entity(rows, "project", id, 1).resp.body = rows[id]
        /\ get_entity(rows, "project", id, 2).resp.status = 404

\* C2: every listing (companies, contacts, deals, activities, projects, tasks
\* with or without a project or assignee filter, teams, comments of an entity,
\* replies to a comment) returns only rows of the caller's tenant.
C2_ListsOnlyOwnTenant ==
    \A kind \in scope \cap (GetKinds \ {"custom_field"}), caller \in UserIds :
        \A filter \in Filters(rows, kind) :
            \A i \in list_entities(rows, kind, caller, filter).items :
                rows[i].tenant_id = users[caller].tenant_id

\* C3: an update or a delete of an entity of another tenant than the caller's
\* (notifications included) has the outcome of the same call on an id that
\* does not exist and leaves the tables as they were.
C3_MutateOtherTenantIsNotFound ==
    \A kind \in scope, caller \in UserIds, id \in 1..Len(rows) :
        LET row == RepoGet(rows, kind, id)
        IN  (Found(row) /\ row.tenant_id # users[caller].tenant_id) =>
                /\ delete_entity(rows, kind, caller, id)
                       = delete_entity(rows, kind, caller, MissingId)
                /\ kind \in GetKinds =>
                       \A content \in Contents :
                           update_entity(rows, kind, caller, id, content)
                               = update_entity(rows, kind, caller, MissingId, content)

\* C4: the tenant a request is stamped and scoped with is the tenant of the
\* principal making it: a created entity carries the creator's tenant_id and
\* a get-by-id of it by its creator returns it.
C4_RequestTenantIsPrincipalTenant ==
    \A kind \in scope, caller \in UserIds :
        /\ RequestTenant(rows, kind, caller) = users[caller].tenant_id
        /\ \A data \in CreateData(rows, kind) :
              LET made == create_entity(rows, kind, caller, data)
              IN  made.resp.status = 201 =>
                      /\ made.resp.body.tenant_id = users[caller].tenant_id
                      /\ kind \in GetKinds =>
                             get_entity(made.rows, kind, Len(made.rows), caller).resp
                                 = Ok(200, made.resp.body)

\* C5: an operation on contacts, companies, deals, projects, tasks or teams
\* goes through only for a caller whose roles grant the permission of the
\* operation: <kind>:read to get, <kind>:write to create or update,
\* <kind>:delete to delete.
C5_OperationsNeedPermission ==
    \A kind \in scope \cap {"contact", "company", "deal", "project", "task", "team"},
       caller \in UserIds :
        /\ \A data \in CreateData(rows, kind) :
              create_entity(rows, kind, caller, data).resp.status = 201 =>
                  has_permission(users[caller].roles, kind \o ":write")
        /\ \A id \in 1..Len(rows) :
              /\ get_entity(rows, kind, id, caller).resp.status = 200 =>
                     has_permission(users[caller].roles, kind \o ":read")
              /\ delete_entity(rows, kind, caller, id).resp.status = 204 =>
                     has_permission(users[caller].roles, kind \o ":delete")
              /\ \A content \in Contents :
                     update_entity(rows, kind, caller, id, content).resp.status = 200 =>
                         has_permission(users[caller].roles, kind \o ":write")

(***************************************************************************)
(* Tokens.                                                                 *)
(***************************************************************************)
\* C6: a correctly signed, unexpired refresh token given to
\* get_current_user_id is refused with an AuthenticationError and resolves
\* to no principal.
C6_RefreshTokenIsRejected ==
    \A r \in issued :
        (r.token.type = "refresh" /\ decode_token(r.token, now).ok) =>
            LET res == get_current_user_id(r.token, now)
            IN  ~res.ok /\ res.error = "AuthenticationError"

\* C7: whatever was done since it was issued (logout, password changes,
\* issuing further tokens), an issued token decodes at every second before
\* its exp and fails to decode at every second after it.
C7_ValidityDependsOnlyOnTime ==
    \A r \in issued :
        /\ Seconds(now) < r.token.exp => decode_token(r.token, now).ok
        /\ Seconds(now) > r.token.exp => ~decode_token(r.token, now).ok

\* C7 witness: after a password change, of two issued tokens one still
\* decodes and the other, which decoded when it was issued, has run out.
C7_Witness ==
    /\ \E u \in UserIds : password_hash[u] # hash_password("p1")
    /\ \E r1 \in issued, r2 \in issued :
          /\ Seconds(now) < r1.token.exp
          /\ decode_token(r1.token, now).ok
          /\ decode_token(r2.token, r2.at).ok
          /\ Seconds(now) > r2.token.exp
          /\ ~decode_token(r2.token, now).ok

\* C8: for every claim set, a token issued this instant with a lifetime that
\* is not negative decodes, with the sub it was given; one from
\* create_access_token has type access, so its type check against refresh
\* fails; one from create_refresh_token has type refresh.
C8_FreshTokenRoundTrip ==
    \A r \in issued :
        (r.at = now /\ (r.ttl = NoDelta \/ r.ttl[2] >= 0)) =>
            LET decoded == decode_token(r.token, now)
            IN  /\ decoded.ok
                /\ decoded.payload.sub = r.data
                /\ r.fn = "create_access_token" =>
                       /\ decoded.payload.type = "access"
                       /\ verify_token_type(decoded.payload, "access").ok
                       /\ ~verify_token_type(decoded.payload, "refresh").ok
                /\ r.fn = "create_refresh_token" =>
                       /\ decoded.payload.type = "refresh"
                       /\ verify_token_type(decoded.payload, "refresh").ok

\* C8 witness: an access token and a refresh token issued this instant for a
\* sub that is present.
C8_Witness ==
    \E r1 \in issued, r2 \in issued :
        /\ r1.at = now /\ r2.at = now
        /\ r1.fn = "create_access_token" /\ r2.fn = "create_refresh_token"
        /\ r1.data = <<"a", "7">> /\ r2.data = <<"1">>
        /\ decode_token(r1.token, now).ok
        /\ decode_token(r2.token, now).ok

\* C9: in the second equal to its exp, a token is expired: is_token_expired
\* is true.
C9_ExpiredAtExp ==
    \A r \in issued :
        Seconds(now) = r.token.exp => is_token_expired(r.token, now)

\* C10: a token issued with an expires_delta, zero and negative ones
\* included, has exp = the instant of issue + expires_delta; one issued with
\* none has exp = the instant of issue + the configured default lifetime.
C10_ExpIsIssuePlusTtl ==
    \A r \in issued :
        r.token.exp =
            Seconds(r.at + TicksPerSecond *
                (IF r.ttl # NoDelta THEN r.ttl[2]
                 ELSE IF r.fn = "create_access_token"
                 THEN ACCESS_TOKEN_EXPIRE_MINUTES * 60
                 ELSE REFRESH_TOKEN_EXPIRE_DAYS * 24 * 60 * 60))

\* The strings a client can present as a token: the tokens handed out, the
\* same payloads signed with another key, and a string that is no token.
PresentedTokens ==
    {r.token : r \in issued}
        \cup {[r.token EXCEPT !.sig = "another key"] : r \in issued}
        \cup {MalformedToken}

\* C11: decode_token fails with an AuthenticationError for a wrongly signed,
\* a malformed and an expired token, and the error raised (status, message
\* and details) is the same whatever the cause.
C11_DecodeFailuresAlike ==
    \A t1 \in PresentedTokens, t2 \in PresentedTokens :
        LET d1 == decode_token(t1, now)
            d2 == decode_token(t2, now)
        IN  (~d1.ok /\ ~d2.ok) => (d1.error = "AuthenticationError" /\ d1 = d2)

(***************************************************************************)
(* Permission queries: has_permission and get_user_permissions applied to  *)
(* a list of role names.                                                   *)
(***************************************************************************)
MaxRoles == 2

\* The role names a list can hold: the known ones and one that is no Role.
RoleNames == Role \cup {"root"}

RoleLists == UNION {[1..n -> RoleNames] : n \in 0..MaxRoles}

InitPerm ==
    /\ rows = <<>>
    /\ scope = {"team"}
    /\ NoTokens
    /\ NoAccounts
    /\ user_roles \in RoleLists
    /\ outcome = NoOutcome

HasPermission ==
    /\ \E required_permission \in Permission :
          outcome' = [fn |-> "has_permission", permission |-> required_permission,
                      granted |-> has_permission(user_roles, required_permission),
                      permissions |-> {}]
    /\ UNCHANGED <<rows, scope, now, issued, password_hash, accounts, pending, user_roles>>

GetUserPermissions ==
    /\ outcome' = [fn |-> "get_user_permissions", permission |-> "", granted |-> FALSE,
                   permissions |-> get_user_permissions(user_roles)]
    /\ UNCHANGED <<rows, scope, now, issued, password_hash, accounts, pending, user_roles>>

NextPerm == HasPermission \/ GetUserPermissions

SpecPerm == InitPerm /\ [][NextPerm]_vars

\* C12: get_user_permissions of a list of role names (any order, duplicates,
\* unknown names) is exactly the union of the permission sets of its names
\* that are known roles; unknown names add nothing.
C12_PermissionsAreUnionOfKnownRoles ==
    LET known == {user_roles[i] : i \in 1..Len(user_roles)} \cap Role
        union == UNION {ROLE_PERMISSIONS[r] : r \in known}
    IN  /\ get_user_permissions(user_roles) = union
        /\ outcome.fn = "get_user_permissions" => outcome.permissions = union

\* C12 witness: get_user_permissions was called on a list with an unknown
\* name before a known one and returned the known role's permissions.
C12_Witness ==
    /\ user_roles = <<"root", "guest">>
    /\ outcome.fn = "get_user_permissions"
    /\ outcome.permissions = {"project:read", "task:read"}

\* C13: has_permission(roles, p) is true exactly when p is in
\* get_user_permissions(roles); it is false for the empty list and for a list
\* of unknown names only.
C13_HasPermissionIsMembership ==
    /\ \A p \in Permission :
          has_permission(user_roles, p) <=> p \in get_user_permissions(user_roles)
    /\ outcome.fn = "has_permission" =>
          (outcome.granted <=> outcome.permission \in get_user_permissions(user_roles))
    /\ (\A i \in 1..Len(user_roles) : user_roles[i] \notin Role) =>
          \A p \in Permission : ~has_permission(user_roles, p)

\* C13 witness: has_permission granted a permission that only the second
\* role of the list holds.
C13_Witness ==
    /\ user_roles = <<"guest", "manager">>
    /\ outcome.fn = "has_permission"
    /\ outcome.permission = "deal:write"
    /\ outcome.granted

\* C14: super_admin holds every defined permission and the permission set of
\* every other role is a subset of it.
C14_SuperAdminHoldsAll ==
    /\ get_role_permissions("super_admin") = Permission
    /\ \A r \in Role : get_role_permissions(r) \subseteq get_role_permissions("super_admin")
    /\ (user_roles # <<>> /\ user_roles[1] = "super_admin") =>
          \A p \in Permission : has_permission(user_roles, p)

\* C14 witness: has_permission granted a super_admin a permission that no
\* other role holds.
C14_Witness ==
    /\ user_roles = <<"super_admin">>
    /\ outcome.fn = "has_permission"
    /\ outcome.permission = "user:delete"
    /\ \A r \in Role \ {"super_admin"} : "user:delete" \notin get_role_permissions(r)
    /\ outcome.granted

(***************************************************************************)
(* core/exceptions/handlers.py: what the client receives for an exception  *)
(* that leaves a handler.                                                  *)
(***************************************************************************)
\* The attributes NexusHubException.__init__ sets on an exception.
ExceptionAttributes == {"message", "status_code", "details"}

JSONResponse(status_code, content) == [status_code |-> status_code, content |-> content]

\* The handler registered for Exception.
general_exception_handler(exc) ==
    JSONResponse(500, [error |-> "INTERNAL_SERVER_ERROR",
                       message |-> "An unexpected error occurred", detail |-> exc])

\* The handler registered for NexusHubException reads exc.status_code,
\* exc.error_code, exc.message and exc.detail; reading an attribute the
\* exception does not have raises AttributeError, which the handler
\* registered for Exception answers.
nexushub_exception_handler(exc) ==
    IF ~({"status_code", "error_code", "message", "detail"} \subseteq ExceptionAttributes)
    THEN general_exception_handler("AttributeError")
    ELSE JSONResponse(exc.status, [error |-> exc.error, message |-> exc.message,
                                   detail |-> exc.message])

\* C15: a principal with roles [user] holds contact:read and not
\* contact:delete, and its delete of a contact is refused with an
\* AuthorizationError (403) that carries the required permission and the
\* principal's roles.
C15_UserRoleScenario ==
    \A caller \in UserIds :
        users[caller].roles = <<"user">> =>
            /\ has_permission(users[caller].roles, "contact:read")
            /\ ~has_permission(users[caller].roles, "contact:delete")
            /\ "contact" \in scope =>
                  \A id \in (1..Len(rows)) \cup {MissingId} :
                      LET resp == delete_entity(rows, "contact", caller, id).resp
                      IN  /\ resp.status = 403
                          /\ resp.error = "AuthorizationError"
                          /\ resp.details = <<"contact:delete", users[caller].roles>>

\* C17: an AuthenticationError reaches the client as status 401, an
\* AuthorizationError as 403 and a NotFoundError as 404, each with a body
\* that carries the error kind and the message of the exception.
C17_ErrorsMapToStatus ==
    LET unauthenticated == get_current_user_id(NoToken, now)
        forbidden == AuthorizationError("Insufficient permissions", "")
        missing == NotFoundError("Company not found")
        Carries(exc, http, status_code) ==
            /\ http.status_code = status_code
            /\ http.content.error = exc.error
            /\ http.content.message = exc.message
    IN  /\ Carries(unauthenticated, nexushub_exception_handler(unauthenticated), 401)
        /\ Carries(forbidden, nexushub_exception_handler(forbidden), 403)
        /\ Carries(missing, nexushub_exception_handler(missing), 404)
        /\ \A kind \in scope \cap CrmServiceKinds, caller \in UserIds :
              LET exc == get_entity(rows, kind, MissingId, caller).resp
              IN  Carries(exc, nexushub_exception_handler(exc), 404)

\* C18: an entity without a tenant is read, updated and deleted only by a
\* superuser-equivalent principal; any other caller, one without a tenant
\* included, is answered not-found.
C18_NoTenantEntityIsHidden ==
    \A kind \in scope, caller \in UserIds, id \in 1..Len(rows) :
        LET row == RepoGet(rows, kind, id)
        IN  (Found(row) /\ row.tenant_id = None /\ ~is_admin(users[caller])) =>
                /\ kind \in GetKinds =>
                       /\ get_entity(rows, kind, id, caller).resp.status = 404
                       /\ \A content \in Contents :
                             update_entity(rows, kind, caller, id, content).resp.status = 404
                /\ delete_entity(rows, kind, caller, id).resp.status = 404


(***************************************************************************)
(* domains/identity: the users table, registration, login and profile      *)
(* update.  Every request runs in a session of its own, so the existence   *)
(* checks of a registration and its insert are two steps that other        *)
(* requests can come between.                                              *)
(***************************************************************************)
MaxAccounts == 2

MaxPending == 2

Emails == {"a@x.io", "b@x.io"}

\* A username is any string of 3 to 100 characters, an address included.
Usernames == {"ann", "a@x.io"}

Identifiers == Emails \cup Usernames \cup {"nobody"}

\* UserCreate.roles and UserUpdate.roles: the list the body carries.
\* UserCreate defaults to ["user"].
RequestRoles == {<<"user">>, <<"super_admin">>}

\* The roles of a body that sends none.
RolesNotSent == <<"unset">>

\* Registrations all choose the first password; logins try both.
RegisterRequests ==
    [email : Emails, username : Usernames, password : {"p1"}, roles : RequestRoles]

\* UserUpdate: every field is optional; model_dump(exclude_unset=True) keeps
\* the fields that were sent.
NothingSent ==
    [email |-> Unset, username |-> Unset, is_active |-> Unset, roles |-> RolesNotSent]

\* The bodies of the model send at most one field.
ProfileUpdates ==
    {NothingSent}
        \cup {[NothingSent EXCEPT !.email = email] : email \in Emails}
        \cup {[NothingSent EXCEPT !.username = username] : username \in Usernames}
        \cup {[NothingSent EXCEPT !.is_active = is_active] : is_active \in {"True", "False"}}
        \cup {[NothingSent EXCEPT !.roles = roles] : roles \in RequestRoles}

ConflictError(message) ==
    [ok |-> FALSE, error |-> "ConflictError", status |-> 409,
     message |-> message, details |-> ""]

\* What the database raises at flush for a row that breaks a unique index.
IntegrityError ==
    [ok |-> FALSE, error |-> "IntegrityError", status |-> 500,
     message |-> "duplicate key value violates unique constraint", details |-> ""]

\* What scalar_one_or_none() raises when the query matches several rows.
MultipleResultsFound ==
    [ok |-> FALSE, error |-> "MultipleResultsFound", status |-> 500,
     message |-> "Multiple rows were found when one or none was required",
     details |-> ""]

\* str(user.id): the text of a UUID, hyphens included.
str(id) == <<CHOOSE c \in Digits : DigitValue(c) = id[2], "-">>

get_by_email(table, email) == {i \in 1..Len(table) : table[i].email = email}

get_by_username(table, username) == {i \in 1..Len(table) : table[i].username = username}

get_by_email_or_username(table, identifier) ==
    LET matches == {i \in 1..Len(table) :
                        table[i].email = identifier \/ table[i].username = identifier}
    IN  IF Cardinality(matches) > 1 THEN MultipleResultsFound
        ELSE IF matches = {} THEN [ok |-> TRUE, user |-> 0]
        ELSE [ok |-> TRUE, user |-> CHOOSE i \in matches : TRUE]

\* unique=True of User.email and of User.username.
UniqueUsers(table) ==
    \A i \in 1..Len(table), j \in 1..Len(table) :
        i # j => (table[i].email # table[j].email /\ table[i].username # table[j].username)

\* db.add(obj); db.flush(): the changed table is stored unless it breaks a
\* unique index; then IntegrityError is raised and get_db rolls back.
flush_unchecked(table, changed) == [resp |-> [ok |-> TRUE, status |-> 200], accounts |-> changed]

flush(table, changed) ==
    IF UniqueUsers(changed)
    THEN [resp |-> [ok |-> TRUE, status |-> 200], accounts |-> changed]
    ELSE [resp |-> IntegrityError, accounts |-> table]

\* UserRepository.create_user up to self.create: the two existence checks.
\* admitted is the row the call goes on to insert.
create_user(table, user_data) ==
    IF get_by_email(table, user_data.email) # {}
    THEN [resp |-> ConflictError("Email already registered"), admitted |-> {}]
    ELSE IF get_by_username(table, user_data.username) # {}
    THEN [resp |-> ConflictError("Username already taken"), admitted |-> {}]
    ELSE [resp |-> [ok |-> TRUE, status |-> 200],
          admitted |-> {[email |-> user_data.email, username |-> user_data.username,
                         password_hash |-> hash_password(user_data.password),
                         roles |-> user_data.roles]}]

\* BaseRepository.create of the row a registration was admitted with.
create(table, user_data) ==
    flush(table, Append(table,
        [id |-> <<"uuid4", Len(table) + 1>>, email |-> user_data.email,
         username |-> user_data.username, password_hash |-> user_data.password_hash,
         roles |-> user_data.roles, is_active |-> TRUE, is_superuser |-> FALSE,
         tenant_id |-> None, last_login_at |-> None]))

\* IdentityService.update_user: repository.update sets every field sent.
update_user(table, user_id, user_data) ==
    LET user == table[user_id]
        changed ==
            [user EXCEPT
                !.email = IF user_data.email = Unset THEN @ ELSE user_data.email,
                !.username = IF user_data.username = Unset THEN @ ELSE user_data.username,
                !.is_active = IF user_data.is_active = Unset THEN @
                              ELSE user_data.is_active = "True",
                !.roles = IF user_data.roles = RolesNotSent THEN @ ELSE user_data.roles]
    IN  flush(table, [table EXCEPT ![user_id] = changed])

\* IdentityService.authenticate.
authenticate(table, credentials, t) ==
    LET lookup == get_by_email_or_username(table, credentials.username)
        Failed(exc) == [resp |-> exc, accounts |-> table, tokens |-> {}]
    IN  IF ~lookup.ok THEN Failed(lookup)
        ELSE IF lookup.user = 0 THEN Failed(AuthenticationError("Invalid credentials", ""))
        ELSE LET user == table[lookup.user]
                 access_token ==
                     create_access_token([sub |-> str(user.id), type |-> "absent"],
                                         NoDelta, t)
                 refresh_token ==
                     create_refresh_token([sub |-> str(user.id), type |-> "absent"],
                                          NoDelta, t)
             IN  IF ~verify_password(credentials.password, user.password_hash)
                 THEN Failed(AuthenticationError("Invalid credentials", ""))
                 ELSE IF ~user.is_active
                 THEN Failed(AuthenticationError("User account is disabled", ""))
                 ELSE [resp |-> [ok |-> TRUE, status |-> 200,
                                 access_token |-> access_token,
                                 refresh_token |-> refresh_token,
                                 user |-> lookup.user],
                       accounts |-> [table EXCEPT ![lookup.user].last_login_at =
                                         <<"datetime", t>>],
                       tokens |->
                           {[token |-> access_token, at |-> t, ttl |-> NoDelta,
                             data |-> str(user.id), fn |-> "create_access_token"],
                            [token |-> refresh_token, at |-> t, ttl |-> NoDelta,
                             data |-> str(user.id), fn |-> "create_refresh_token"]}]

\* The stored values verify_password is applied to.
StoredHashes == {hash_password(password) : password \in Passwords}
                    \cup {MalformedHash, CorruptHash}

\* IdentityService.get_user: repository.get by the integer the token gave.
\* An integer equals no UUID key, so only a row whose key is that integer
\* is found.
get_user(table, user_id) ==
    LET found == {i \in 1..Len(table) : table[i].id = <<"int", user_id>>}
    IN  IF found = {}
        THEN [ok |-> FALSE, error |-> "NotFoundError", status |-> 404,
              message |-> "User not found", details |-> ""]
        ELSE [ok |-> TRUE, status |-> 200, user |-> CHOOSE i \in found : TRUE]

\* identity/dependencies.py get_current_user: no check of is_active.
get_current_user(table, token, t) ==
    LET user_id == get_current_user_id(token, t)
    IN  IF ~user_id.ok THEN user_id ELSE get_user(table, user_id.value)

\* identity/dependencies.py get_current_active_user.
get_current_active_user(table, token, t) ==
    LET current_user == get_current_user(table, token, t)
    IN  IF ~current_user.ok THEN current_user
        ELSE IF ~table[current_user.user].is_active
        THEN AuthenticationError("User account is disabled", "")
        ELSE current_user

InitIdentity ==
    /\ rows = <<>>
    /\ scope = {"team"}
    /\ NoTokens
    /\ NoAccounts
    /\ NoCalls

\* POST /register, first part: the existence checks of create_user.
RegisterCheck ==
    /\ \E user_data \in RegisterRequests :
          LET result == create_user(accounts, user_data)
          IN  /\ Cardinality(pending \cup result.admitted) <= MaxPending
              /\ pending' = pending \cup result.admitted
              /\ outcome' = [fn |-> "create_user", request |-> user_data,
                             resp |-> result.resp]
    /\ UNCHANGED <<rows, scope, now, issued, password_hash, accounts, user_roles>>

\* POST /register, second part: the insert of an admitted registration.
RegisterInsert ==
    /\ Len(accounts) < MaxAccounts
    /\ \E user_data \in pending :
          LET result == create(accounts, user_data)
          IN  /\ accounts' = result.accounts
              /\ pending' = pending \ {user_data}
              /\ outcome' = [fn |-> "create", request |-> user_data,
                             resp |-> result.resp]
    /\ UNCHANGED <<rows, scope, now, issued, password_hash, user_roles>>

\* POST /login.
Login ==
    /\ \E identifier \in Identifiers, password \in Passwords :
          LET credentials == [username |-> identifier, password |-> password]
              result == authenticate(accounts, credentials, now)
          IN  /\ accounts' = result.accounts
              /\ issued' = issued \cup result.tokens
              /\ outcome' = [fn |-> "authenticate", resp |-> result.resp]
    /\ UNCHANGED <<rows, scope, now, password_hash, pending, user_roles>>

\* PATCH /me of the user the token resolves to.
UpdateProfile ==
    /\ \E user_id \in 1..Len(accounts), user_data \in ProfileUpdates :
          LET result == update_user(accounts, user_id, user_data)
          IN  /\ accounts' = result.accounts
              /\ outcome' = [fn |-> "update_user", resp |-> result.resp]
    /\ UNCHANGED <<rows, scope, now, issued, password_hash, pending, user_roles>>

\* verify_password applied to a plaintext and a stored value.
VerifyPassword ==
    /\ \E plain_password \in Passwords, hashed_password \in StoredHashes :
          outcome' = [fn |-> "verify_password",
                      request |-> <<plain_password, hashed_password>>,
                      resp |-> verify_password(plain_password, hashed_password)]
    /\ UNCHANGED <<rows, scope, now, issued, password_hash, accounts, pending, user_roles>>

\* GET /me with a token that was issued, or with none.
GetMe ==
    /\ \E token \in {record.token : record \in issued} \cup {NoToken} :
          outcome' = [fn |-> "get_current_user_info",
                      resp |-> get_current_user(accounts, token, now)]
    /\ UNCHANGED <<rows, scope, now, issued, password_hash, accounts, pending, user_roles>>

NextIdentity ==
    RegisterCheck \/ RegisterInsert \/ Login \/ UpdateProfile \/ VerifyPassword \/ GetMe

SpecIdentity == InitIdentity /\ [][NextIdentity]_vars

\* C16: verify_password returns true exactly when the plaintext is the one
\* the stored hash was made from; for a wrong plaintext, a malformed stored
\* value and any other verification error it returns false and raises
\* nothing, so the three failures give the caller the same value.
C16_VerifyPasswordFoldsFailures ==
    /\ \A plain_password \in Passwords, hashed_password \in StoredHashes :
          /\ verify_password(plain_password, hashed_password) \in BOOLEAN
          /\ verify_password(plain_password, hashed_password)
                 <=> hashed_password = hash_password(plain_password)
    /\ \A plain_password \in Passwords : \A wrong \in Passwords \ {plain_password} :
          /\ verify_password(wrong, hash_password(plain_password)) = FALSE
          /\ verify_password(plain_password, MalformedHash)
                 = verify_password(wrong, hash_password(plain_password))
          /\ verify_password(plain_password, CorruptHash)
                 = verify_password(wrong, hash_password(plain_password))
    /\ outcome.fn = "verify_password" =>
          outcome.resp = (outcome.request[2] = hash_password(outcome.request[1]))

\* C16 witness: verify_password was applied to a malformed stored value and
\* returned false.
C16_Witness ==
    /\ outcome.fn = "verify_password"
    /\ outcome.request = <<"p1", MalformedHash>>
    /\ ph_verify(MalformedHash, "p1") = "InvalidHashError"
    /\ outcome.resp = FALSE

\* C19: login returns an access and a refresh token only when the identifier
\* matches a user, the password verifies against that user's stored hash and
\* the user is active; in every other case it fails with an
\* AuthenticationError, issues no token and leaves every last_login_at as it
\* was.
C19_LoginOnlyForValidCredentials ==
    \A identifier \in Identifiers, password \in Passwords :
        LET credentials == [username |-> identifier, password |-> password]
            result == authenticate(accounts, credentials, now)
            eligible ==
                \E i \in 1..Len(accounts) :
                    /\ accounts[i].email = identifier \/ accounts[i].username = identifier
                    /\ verify_password(password, accounts[i].password_hash)
                    /\ accounts[i].is_active
        IN  /\ result.resp.ok => (eligible /\ Cardinality(result.tokens) = 2)
            /\ ~eligible =>
                  /\ ~result.resp.ok
                  /\ result.resp.error = "AuthenticationError"
                  /\ result.tokens = {}
                  /\ result.accounts = accounts

Tenants == {TenantA, TenantB}

\* DealCreate.validate_stage allows six stages; three stand for the open
\* ones and the two closed ones.
Stages == {"proposal", "closed_won", "closed_lost"}

Statuses == {"open", "won", "lost"}

\* The value of a field the request body leaves out: of an id, and of a
\* tenant.  (Unset is the one of a string.)
NotSent == 0 - 1

TenantNotSent == <<"unset", 0>>

CrmRow(kind, tenant_id, company_id, contact_id, deal_id, stage) ==
    [NewRow(kind, tenant_id, 0, 0, company_id, 0, "a") EXCEPT
        !.contact = contact_id, !.deal = deal_id, !.stage = stage]

Updated(rs, id, row) == [resp |-> Ok(200, row), rows |-> [rs EXCEPT ![id] = row]]

\* CompanyService.create_company
create_company(rs, data, tenant_id) ==
    IF data.parent_company_id # 0
       /\ ~TenantCheck(RepoGet(rs, "company", data.parent_company_id), tenant_id)
    THEN Refuse(rs, ValidationError("Invalid parent company"))
    ELSE Insert(rs, CrmRow("company", tenant_id, data.parent_company_id, 0, 0, "none"))

\* CompanyService.update_company
update_company(rs, company_id, data, tenant_id) ==
    LET company == RepoGet(rs, "company", company_id)
        parent_id == data.parent_company_id
        changed == parent_id # NotSent /\ parent_id # 0 /\ parent_id # company.ref
    IN  IF ~TenantCheck(company, tenant_id)
        THEN Refuse(rs, NotFoundError("Company not found"))
        ELSE IF changed /\ parent_id = company_id
        THEN Refuse(rs, ValidationError("Company cannot be its own parent"))
        ELSE IF changed /\ ~TenantCheck(RepoGet(rs, "company", parent_id), tenant_id)
        THEN Refuse(rs, ValidationError("Invalid parent company"))
        ELSE Updated(rs, company_id,
                     [company EXCEPT !.ref = IF parent_id # NotSent THEN parent_id ELSE @])

\* ContactService.create_contact (the contacts of the model have no email).
create_contact(rs, data, tenant_id) ==
    IF data.company_id # 0
       /\ ~TenantCheck(RepoGet(rs, "company", data.company_id), tenant_id)
    THEN Refuse(rs, ValidationError("Invalid company"))
    ELSE IF data.reports_to_id # 0
            /\ ~TenantCheck(RepoGet(rs, "contact", data.reports_to_id), tenant_id)
    THEN Refuse(rs, ValidationError("Invalid reports_to contact"))
    ELSE Insert(rs, CrmRow("contact", tenant_id, data.company_id, data.reports_to_id,
                           0, "none"))

\* ContactService.update_contact
update_contact(rs, contact_id, data, tenant_id) ==
    LET contact == RepoGet(rs, "contact", contact_id)
    IN  IF ~TenantCheck(contact, tenant_id)
        THEN Refuse(rs, NotFoundError("Contact not found"))
        ELSE IF data.company_id # NotSent /\ data.company_id # 0
                /\ data.company_id # contact.ref
                /\ ~TenantCheck(RepoGet(rs, "company", data.company_id), tenant_id)
        THEN Refuse(rs, ValidationError("Invalid company"))
        ELSE Updated(rs, contact_id,
                     [contact EXCEPT
                         !.ref = IF data.company_id # NotSent THEN data.company_id ELSE @])

\* DealService.create_deal: the status column defaults to "open".
create_deal(rs, data, tenant_id) ==
    IF ~TenantCheck(RepoGet(rs, "company", data.company_id), tenant_id)
    THEN Refuse(rs, ValidationError("Invalid company"))
    ELSE IF data.contact_id # 0
            /\ ~TenantCheck(RepoGet(rs, "contact", data.contact_id), tenant_id)
    THEN Refuse(rs, ValidationError("Invalid contact"))
    ELSE Insert(rs, CrmRow("deal", tenant_id, data.company_id, data.contact_id,
                           0, data.stage))

\* DealService.update_deal: repository.update sets every field sent.
update_deal(rs, deal_id, data, tenant_id) ==
    LET deal == RepoGet(rs, "deal", deal_id)
    IN  IF ~TenantCheck(deal, tenant_id)
        THEN Refuse(rs, NotFoundError("Deal not found"))
        ELSE IF data.contact_id # NotSent /\ data.contact_id # 0
                /\ data.contact_id # deal.contact
                /\ ~TenantCheck(RepoGet(rs, "contact", data.contact_id), tenant_id)
        THEN Refuse(rs, ValidationError("Invalid contact"))
        ELSE Updated(rs, deal_id,
                     [deal EXCEPT
                         !.contact = IF data.contact_id # NotSent THEN data.contact_id ELSE @,
                         !.stage = IF data.stage # Unset THEN data.stage ELSE @,
                         !.status = IF data.status # Unset THEN data.status ELSE @])

\* DealService.move_deal
move_deal(rs, deal_id, stage, tenant_id) ==
    LET deal == RepoGet(rs, "deal", deal_id)
    IN  IF ~TenantCheck(deal, tenant_id)
        THEN Refuse(rs, NotFoundError("Deal not found"))
        ELSE Updated(rs, deal_id,
                     [deal EXCEPT
                         !.stage = stage,
                         !.status = IF stage = "closed_won" THEN "won"
                                    ELSE IF stage = "closed_lost" THEN "lost"
                                    ELSE @])

\* crm/router_ext.py
mark_deal_won(rs, deal_id, tenant_id) == move_deal(rs, deal_id, "closed_won", tenant_id)

mark_deal_lost(rs, deal_id, tenant_id) == move_deal(rs, deal_id, "closed_lost", tenant_id)

\* ActivityService.create_activity
create_activity(rs, data, tenant_id) ==
    Insert(rs, CrmRow("activity", tenant_id, data.company_id, data.contact_id,
                      data.deal_id, "none"))

\* crm/router.py update_activity: data is a dict; every key that names an
\* attribute of the activity is set.
update_activity(rs, activity_id, data, tenant_id) ==
    LET activity == RepoGet(rs, "activity", activity_id)
    IN  IF ~TenantCheck(activity, tenant_id)
        THEN Refuse(rs, HTTPException(404, "Activity not found"))
        ELSE Updated(rs, activity_id,
                     [activity EXCEPT
                         !.tenant_id = IF data.tenant_id # TenantNotSent THEN data.tenant_id ELSE @,
                         !.ref = IF data.company_id # NotSent THEN data.company_id ELSE @])

RefIds == 0..Len(rows)

InitCrm ==
    /\ rows = <<>>
    /\ scope = {"company", "contact", "deal", "activity"}
    /\ NoTokens
    /\ NoCalls
    /\ NoAccounts

Frozen == UNCHANGED <<scope, now, issued, password_hash, accounts, pending, user_roles, outcome>>

CreateCompany ==
    /\ Len(rows) < MaxRows
    /\ \E tenant_id \in Tenants, data \in [parent_company_id : RefIds] :
          rows' = create_company(rows, data, tenant_id).rows
    /\ Frozen

UpdateCompany ==
    /\ \E tenant_id \in Tenants, company_id \in 1..Len(rows),
          data \in [parent_company_id : RefIds \cup {NotSent}] :
          rows' = update_company(rows, company_id, data, tenant_id).rows
    /\ Frozen

CreateContact ==
    /\ Len(rows) < MaxRows
    /\ \E tenant_id \in Tenants, data \in [company_id : RefIds, reports_to_id : RefIds] :
          rows' = create_contact(rows, data, tenant_id).rows
    /\ Frozen

UpdateContact ==
    /\ \E tenant_id \in Tenants, contact_id \in 1..Len(rows),
          data \in [company_id : RefIds \cup {NotSent}] :
          rows' = update_contact(rows, contact_id, data, tenant_id).rows
    /\ Frozen

CreateDeal ==
    /\ Len(rows) < MaxRows
    /\ \E tenant_id \in Tenants,
          data \in [company_id : 1..Len(rows), contact_id : RefIds, stage : Stages] :
          rows' = create_deal(rows, data, tenant_id).rows
    /\ Frozen

UpdateDeal ==
    /\ \E tenant_id \in Tenants, deal_id \in 1..Len(rows),
          data \in [contact_id : RefIds \cup {NotSent}, stage : Stages \cup {Unset},
                    status : Statuses \cup {Unset}] :
          rows' = update_deal(rows, deal_id, data, tenant_id).rows
    /\ Frozen

MoveDeal ==
    /\ \E tenant_id \in Tenants, deal_id \in 1..Len(rows), stage \in Stages :
          rows' = move_deal(rows, deal_id, stage, tenant_id).rows
    /\ Frozen

MarkDealWon ==
    /\ \E tenant_id \in Tenants, deal_id \in 1..Len(rows) :
          rows' = mark_deal_won(rows, deal_id, tenant_id).rows
    /\ Frozen

MarkDealLost ==
    /\ \E tenant_id \in Tenants, deal_id \in 1..Len(rows) :
          rows' = mark_deal_lost(rows, deal_id, tenant_id).rows
    /\ Frozen

CreateActivity ==
    /\ Len(rows) < MaxRows
    /\ \E tenant_id \in Tenants,
          data \in [company_id : RefIds, contact_id : RefIds, deal_id : RefIds] :
          rows' = create_activity(rows, data, tenant_id).rows
    /\ Frozen

UpdateActivity ==
    /\ \E tenant_id \in Tenants, activity_id \in 1..Len(rows),
          data \in [tenant_id : Tenants \cup {TenantNotSent}, company_id : RefIds \cup {NotSent}] :
          rows' = update_activity(rows, activity_id, data, tenant_id).rows
    /\ Frozen

NextCrm ==
    \/ CreateCompany \/ UpdateCompany \/ CreateContact \/ UpdateContact
    \/ CreateDeal \/ UpdateDeal \/ MoveDeal \/ MarkDealWon \/ MarkDealLost
    \/ CreateActivity \/ UpdateActivity

SpecCrm == InitCrm /\ [][NextCrm]_vars

(***************************************************************************)
(* Claims on the store's frame conditions and invariants.                  *)
(***************************************************************************)
\* C21: update_comment and delete_comment change a comment only when the
\* caller is of the comment's tenant and is its author; a caller of the
\* comment's tenant who is not the author gets 403, a caller of another
\* tenant gets 404 (never 403), and in both cases the table is unchanged.
C21_OnlyAuthorChangesComment ==
    \A id \in 1..Len(rows), caller \in UserIds :
        (rows[id].kind = "comment" /\ rows[id].live) =>
            LET same_tenant == rows[id].tenant_id = users[caller].tenant_id
                author == rows[id].owner = caller
                results == {update_entity(rows, "comment", caller, id, content) :
                                content \in Contents}
                               \cup {delete_entity(rows, "comment", caller, id)}
            IN  \A result \in results :
                    /\ result.rows # rows => (same_tenant /\ author)
                    /\ (same_tenant /\ ~author) =>
                          (result.resp.status = 403 /\ result.rows = rows)
                    /\ ~same_tenant =>
                          (result.resp.status = 404 /\ result.rows = rows)

\* C21 witness: user 1 has deleted its own comment, and a second comment of
\* user 1 is there which user 3 (same tenant) is refused with 403 and user 2
\* (other tenant) with 404.
C21_Witness ==
    \E id \in 1..Len(rows), other \in 1..Len(rows) :
        /\ rows[id].kind = "comment" /\ rows[other].kind = "comment"
        /\ rows[id].owner = 1 /\ rows[other].owner = 1
        /\ rows[other].is_deleted
        /\ ~rows[id].is_deleted
        /\ update_entity(rows, "comment", 3, id, "b").resp.status = 403
        /\ delete_entity(rows, "comment", 2, id).resp.status = 404

C23_StatusFollowsStage ==
    \A id \in 1..Len(rows) :
        rows[id].kind = "deal" =>
            /\ rows[id].status = "won" <=> rows[id].stage = "closed_won"
            /\ rows[id].status = "lost" <=> rows[id].stage = "closed_lost"

\* C24: after any sequence of company create and update operations, no
\* company is reached from itself by following parent_company_id links: no
\* company is its own parent or its own ancestor.
C24_NoCompanyIsItsOwnAncestor ==
    LET companies == {c \in 1..Len(rows) : rows[c].kind = "company"}
        ancestors[n \in 0..Len(rows)] ==
            [c \in companies |->
                IF n = 0 THEN {rows[c].ref} \cap companies
                ELSE ancestors[n - 1][c] \cup
                         UNION {{rows[a].ref} \cap companies : a \in ancestors[n - 1][c]}]
    IN  \A c \in companies : c \notin ancestors[Len(rows)][c]

====
